---- MODULE Spec2Model ----
(***************************************************************************)
(* Model of the python_ifconfig network interface reporter.  The           *)
(* repository holds three drafts of the same tool (if_8.py, if_8v2.py,     *)
(* if_v4.py); the variable draft says which one is running.                *)
(*                                                                         *)
(* Text is a sequence of symbols.  A symbol is a decimal digit, a blank, a *)
(* colon, a newline, the non-numeric symbol "x", or an interface name      *)
(* (whose letters the code never looks at, so a name is one symbol).       *)
(*                                                                         *)
(* Integers that may exceed 32 bits (byte counters) are little-endian      *)
(* sequences of base-1024 limbs without high zero limbs; <<>> is zero.     *)
(***************************************************************************)
EXTENDS Integers, Sequences, FiniteSets, TLC

VARIABLES
    draft,       \* which source file runs: "if_8", "if_8v2" or "if_v4"
    isLinux,     \* sys.platform.startswith("linux")
    FILTER,      \* config.FILTER_INTERFACES (a set of names; {} disables it)
    pc,          \* position of the run
    out,         \* everything printed so far, in order
    exitCode,    \* process exit status once pc = "done", else -1
    ifaces,      \* the list netifaces.interfaces() returned
    idx,         \* index in ifaces of the interface being handled
    fds,         \* descriptors (sockets, files) currently open
    mtu,         \* the latest get_mtu call: what it tried and how it ended
    lines,       \* the list display_traffic_stats iterates over
    li,          \* index in lines of the line being parsed
    size,        \* argument handed to format_bytes (pure-function run)
    formatted    \* its result, or NoResult before the call

progVars == <<draft, isLinux, FILTER, pc, out, exitCode, ifaces, idx, fds,
              mtu, lines, li>>
fmtVars == <<size, formatted>>
vars == <<progVars, fmtVars>>

(***************************************************************************)
(* Bounds                                                                  *)
(***************************************************************************)
MaxLines == 2
MaxLimbs == 4

(***************************************************************************)
(* Arbitrary-size naturals                                                 *)
(***************************************************************************)
Base == 1024

RECURSIVE Norm(_)
Norm(l) ==
    IF l = <<>> THEN <<>>
    ELSE IF l[Len(l)] = 0 THEN Norm(SubSeq(l, 1, Len(l) - 1)) ELSE l

\* l * m + c for small m and c, keeping Len(l) limbs: <<limbs, carry out>>
RECURSIVE MulCarry(_, _, _)
MulCarry(l, m, c) ==
    IF l = <<>> THEN <<(<<>>), c>>
    ELSE LET t == l[1] * m + c
             r == MulCarry(Tail(l), m, t \div Base)
         IN  <<(<<t % Base>>) \o r[1], r[2]>>

RECURSIVE SmallToBig(_)
SmallToBig(n) == IF n = 0 THEN <<>> ELSE <<n % Base>> \o SmallToBig(n \div Base)

BigMulAdd(l, m, c) ==
    LET r == MulCarry(l, m, c) IN Norm(r[1] \o SmallToBig(r[2]))

RECURSIVE BigToSmall(_)
BigToSmall(l) == IF l = <<>> THEN 0 ELSE l[1] + Base * BigToSmall(Tail(l))

RECURSIVE BigLeq(_, _)
BigLeq(a, b) ==
    IF Len(a) # Len(b) THEN Len(a) < Len(b)
    ELSE IF a = <<>> THEN TRUE
    ELSE IF a[Len(a)] # b[Len(b)] THEN a[Len(a)] < b[Len(b)]
    ELSE BigLeq(SubSeq(a, 1, Len(a) - 1), SubSeq(b, 1, Len(b) - 1))

Shift(l, k) == IF l = <<>> THEN <<>> ELSE [i \in 1..k |-> 0] \o l

(***************************************************************************)
(* format_bytes                                                            *)
(***************************************************************************)
BYTE_UNITS == <<"B", "KiB", "MiB", "GiB", "TiB">>

\* float(size): a double holds every integer below 2^53 exactly, and a
\* division by 1024 only lowers its exponent; num / 1024^shift is the value.
ToFloat(n) == [num |-> n, shift |-> 0]

FloatGeq1024(x) == Len(x.num) - x.shift >= 2

FloatDiv1024(x) == [x EXCEPT !.shift = @ + 1]

\* f"{x:.1f}": the decimal nearest to x with one fractional digit, ties to
\* the even digit (the value of a double is converted exactly)
FormatOneDigit(x) ==
    LET whole == BigToSmall(SubSeq(x.num, x.shift + 1, Len(x.num)))
        low   == SubSeq(x.num, 1, x.shift)
        r     == MulCarry(low, 10, 0)
        digit == r[2]
        rest  == r[1]
        top   == IF rest = <<>> THEN 0 ELSE rest[Len(rest)]
        below == \E i \in 1..(Len(rest) - 1) : rest[i] # 0
        half  == Base \div 2
        up    == \/ top > half
                 \/ top = half /\ below
                 \/ top = half /\ ~below /\ digit % 2 = 1
        t     == 10 * whole + digit + (IF up THEN 1 ELSE 0)
    IN  [whole |-> t \div 10, frac |-> t % 10]

FloatGt1024(x) ==
    /\ FloatGeq1024(x)
    /\ ~(/\ Len(x.num) - x.shift = 2
          /\ x.num[Len(x.num)] = 1
          /\ \A i \in 1..(Len(x.num) - 1) : x.num[i] = 0)

RECURSIVE FormatLoopStrict(_, _)
FormatLoopStrict(readable_size, unit_index) ==
    IF FloatGt1024(readable_size) /\ unit_index < Len(BYTE_UNITS) - 1
    THEN FormatLoopStrict(FloatDiv1024(readable_size), unit_index + 1)
    ELSE [size |-> readable_size, unit_index |-> unit_index]

RECURSIVE FormatLoop(_, _)
FormatLoop(readable_size, unit_index) ==
    IF FloatGeq1024(readable_size) /\ unit_index < Len(BYTE_UNITS) - 1
    THEN FormatLoop(FloatDiv1024(readable_size), unit_index + 1)
    ELSE [size |-> readable_size, unit_index |-> unit_index]

format_bytes(n) ==
    LET r == FormatLoop(ToFloat(n), 0)
        d == FormatOneDigit(r.size)
    IN  [whole |-> d.whole, frac |-> d.frac, unit |-> BYTE_UNITS[r.unit_index + 1]]

(***************************************************************************)
(* Text                                                                    *)
(***************************************************************************)
Digit == [c \in {"0", "1", "2", "3", "4", "5", "6", "7", "8", "9"} |->
            CASE c = "0" -> 0 [] c = "1" -> 1 [] c = "2" -> 2 [] c = "3" -> 3
              [] c = "4" -> 4 [] c = "5" -> 5 [] c = "6" -> 6 [] c = "7" -> 7
              [] c = "8" -> 8 [] c = "9" -> 9]

IsSpace(c) == c \in {" ", "\n"}

\* str.strip()
RECURSIVE LStrip(_)
LStrip(t) == IF t # <<>> /\ IsSpace(Head(t)) THEN LStrip(Tail(t)) ELSE t

RECURSIVE RStrip(_)
RStrip(t) ==
    IF t # <<>> /\ IsSpace(t[Len(t)]) THEN RStrip(SubSeq(t, 1, Len(t) - 1)) ELSE t

Strip(t) == RStrip(LStrip(t))

\* str.split(sep): the pieces between separators, empty pieces kept
RECURSIVE SplitAcc(_, _, _)
SplitAcc(t, sep, cur) ==
    IF t = <<>> THEN <<cur>>
    ELSE IF Head(t) = sep THEN <<cur>> \o SplitAcc(Tail(t), sep, <<>>)
    ELSE SplitAcc(Tail(t), sep, Append(cur, Head(t)))

Split(t, sep) == SplitAcc(t, sep, <<>>)

\* str.split(): the maximal runs of non-blank symbols
RECURSIVE SplitWsAcc(_, _)
SplitWsAcc(t, cur) ==
    IF t = <<>> THEN (IF cur = <<>> THEN <<>> ELSE <<cur>>)
    ELSE IF IsSpace(Head(t))
         THEN (IF cur = <<>> THEN <<>> ELSE <<cur>>) \o SplitWsAcc(Tail(t), <<>>)
    ELSE SplitWsAcc(Tail(t), Append(cur, Head(t)))

SplitWs(t) == SplitWsAcc(t, <<>>)

\* int(text): ValueError unless, blanks stripped, it is a run of digits
IntOk(t) == Strip(t) # <<>> /\ \A i \in 1..Len(Strip(t)) : Strip(t)[i] \in DOMAIN Digit

RECURSIVE DecToBig(_, _)
DecToBig(t, acc) ==
    IF t = <<>> THEN acc ELSE DecToBig(Tail(t), BigMulAdd(acc, 10, Digit[Head(t)]))

IntVal(t) == DecToBig(Strip(t), <<>>)

(***************************************************************************)
(* The host: what the operating system may answer                          *)
(***************************************************************************)
Drafts == {"if_8", "if_8v2", "if_v4"}

Name(n) == <<n>>
Names == {Name("eth0"), Name("wlan0")}

\* config.FILTER_INTERFACES: disabled (None), one name, or the shipped set
Filters == {{}, {Name("eth0")}, {Name("eth0"), Name("wlan0")}}

RECURSIVE SeqsUpTo(_, _)
SeqsUpTo(S, n) ==
    IF n = 0 THEN {<<>>}
    ELSE LET shorter == SeqsUpTo(S, n - 1)
         IN  shorter \cup {Append(q, x) : q \in shorter, x \in S}

NoRepeat(q) == \A i, j \in 1..Len(q) : i # j => q[i] # q[j]

\* netifaces.interfaces(): a list of distinct names in the kernel's order
IfaceLists == {q \in SeqsUpTo(Names, Cardinality(Names)) : NoRepeat(q)}

NoDict == [k \in {} |-> ""]
FullDict == [k \in {"addr", "netmask", "broadcast"} |->
               CASE k = "addr" -> "192.168.1.10"
                 [] k = "netmask" -> "255.255.255.0"
                 [] k = "broadcast" -> "192.168.1.255"]

\* netifaces.ifaddresses(name): it raises, or maps address families to lists
AddrOutcomes ==
    { [raises |-> TRUE,  inet |-> <<>>],
      [raises |-> FALSE, inet |-> <<>>],
      [raises |-> FALSE, inet |-> <<FullDict>>] }

\* SIOCGIFMTU: it fails, or the kernel stores the interface's MTU
IoctlOutcomes ==
    { [ok |-> FALSE, mtu |-> 0], [ok |-> TRUE, mtu |-> 1500], [ok |-> TRUE, mtu |-> 65536] }

\* <SYSFS_NET_PATH>/<interface>/mtu: absent, or a file with this content
SysfsOutcomes ==
    { [exists |-> FALSE, content |-> <<>>],
      [exists |-> TRUE,  content |-> <<"1", "5", "0", "0", "\n">>],
      [exists |-> TRUE,  content |-> <<"\n">>] }

T0 == <<"0">>
T100 == <<"1", "0", "0">>
T200 == <<"2", "0", "0">>
T1536 == <<"1", "5", "3", "6">>
TBad == <<"x">>

RECURSIVE JoinWs(_)
JoinWs(toks) == IF toks = <<>> THEN <<>> ELSE <<" ">> \o Head(toks) \o JoinWs(Tail(toks))

Row(rx, tx) == <<rx, T0, T0, T0, T0, T0, T0, T0, tx, T0, T0, T0, T0, T0, T0, T0>>

MkLine(name, toks) == <<" ", " ">> \o name \o <<":">> \o JoinWs(toks) \o <<"\n">>

GoodEth0 == MkLine(Name("eth0"), Row(T100, T200))
GoodWlan0 == MkLine(Name("wlan0"), Row(T0, T1536))
ShortLine == MkLine(Name("eth0"), <<T100, T0, T0, T0, T0>>)
NoColonLine == <<" ", "x", " ", "x", "\n">>
BadNumLine == MkLine(Name("eth0"), Row(T100, TBad))
BlankLine == <<" ", "\n">>

LineSamples == {GoodEth0, GoodWlan0, ShortLine, NoColonLine, BadNumLine, BlankLine}

HeaderLines == << <<"x", "\n">>, <<"x", "\n">> >>

\* the statistics table: its two header lines, then the data lines
StatFiles == {HeaderLines \o d : d \in SeqsUpTo(LineSamples, MaxLines)}

\* os.path.exists / open of config.PROC_NET_DEV
ProcOutcomes ==
    { [exists |-> FALSE, readable |-> FALSE, text |-> <<>>],
      [exists |-> TRUE,  readable |-> FALSE, text |-> <<>>] }
    \cup { [exists |-> TRUE, readable |-> TRUE, text |-> f] : f \in StatFiles }

(***************************************************************************)
(* Printed lines                                                           *)
(***************************************************************************)
NoFmt == [whole |-> 0, frac |-> 0, unit |-> ""]

Ln(pipe, kind, iface, text, n, fmt) ==
    [pipe |-> pipe, kind |-> kind, iface |-> iface, text |-> text, n |-> n, fmt |-> fmt]

P(pipe, kind, iface, text) == Ln(pipe, kind, iface, text, 0, NoFmt)

\* the value None of get_mtu
None == -1

NoMtu == [iface |-> <<>>, ioctl |-> "none", sysfs |-> "notread", content |-> <<>>,
          state |-> "none", value |-> None]

NoResult == [whole |-> 0, frac |-> 0, unit |-> "none"]

DictGet(d, k, default) == IF k \in DOMAIN d THEN d[k] ELSE default

NeverFiltered(filter, name) == FALSE

\* config.FILTER_INTERFACES and name not in config.FILTER_INTERFACES
Filtered(filter, name) == filter # {} /\ name \notin filter

(***************************************************************************)
(* get_interface_info, up to its call of get_mtu                           *)
(***************************************************************************)
AddrBlock(name, ipv4) ==
    << P("net", "name", name, ""),
       P("net", "inet", name, DictGet(ipv4, "addr", "N/A")),
       P("net", "netmask", name, DictGet(ipv4, "netmask", "N/A")),
       P("net", "broadcast", name, DictGet(ipv4, "broadcast", "N/A")) >>

InfoUncaught(name, a) ==
    IF a.raises
    THEN [next |-> "crash", lines |-> <<P("net", "name", name, "")>>]
    ELSE [next |-> "mtu",
          lines |-> AddrBlock(name, IF a.inet = <<>> THEN NoDict ELSE a.inet[1])]

\* if_v4.py and if_8v2.py: addrs.get(AF_INET, [{}])[0], except Exception
InfoHardened(name, a) ==
    IF a.raises
    THEN [next |-> "skip",
          lines |-> <<P("net", "name", name, ""), P("net", "error", name, "ValueError")>>]
    ELSE [next |-> "mtu",
          lines |-> AddrBlock(name, IF a.inet = <<>> THEN NoDict ELSE a.inet[1])]

\* if_8.py: addrs[AF_INET][0], ['addr'], ['netmask'], except KeyError
InfoFirst(name, a) ==
    IF a.raises
    THEN [next |-> "crash", lines |-> <<P("net", "name", name, "")>>]
    ELSE IF a.inet = <<>> \/ ~({"addr", "netmask"} \subseteq DOMAIN a.inet[1])
    THEN [next |-> "skip",
          lines |-> <<P("net", "name", name, ""), P("net", "noipv4", name, "")>>]
    ELSE [next |-> "mtu", lines |-> AddrBlock(name, a.inet[1])]

get_interface_info(d, name, a) ==
    IF d = "if_8" THEN InfoFirst(name, a) ELSE InfoHardened(name, a)

\* what get_interface_info prints once get_mtu has returned v
MtuLines(d, name, v) ==
    CASE d = "if_v4" ->
           IF v # None /\ v # 0 THEN <<Ln("net", "MTU", name, "", v, NoFmt)>> ELSE <<>>
      [] d = "if_8v2" ->
           IF v # None /\ v # 0 THEN <<Ln("net", "MTU", name, "", v, NoFmt)>>
           ELSE <<P("net", "MTU", name, "Unable to retrieve")>>
      [] d = "if_8" ->
           <<Ln("net", "MTU", name, "", v, NoFmt)>>

(***************************************************************************)
(* get_mtu                                                                 *)
(***************************************************************************)
UShort == 65536

\* struct.unpack('H', reply[16:18]): the low 16 bits of the kernel's int
UnpackMtu(n) == n % UShort

OpenFd(f) == f + 1
CloseFd(f) == f - 1

\* The descriptor count once get_mtu's socket block is left.  if_v4.py and
\* if_8v2.py hold the socket in a with statement.  if_8.py never closes it:
\* a raise keeps it alive in the traceback's frame, and after a return it is
\* closed whenever the runtime collects the socket object.
SocketFds(d, f, raised) ==
    IF d = "if_8"
    THEN (IF raised THEN {OpenFd(f)} ELSE {OpenFd(f), CloseFd(OpenFd(f))})
    ELSE {CloseFd(OpenFd(f))}

\* the sysfs fallback of if_v4.py: open, int(f.read()), except (IOError, ValueError)
SysfsRead(s) ==
    IF ~s.exists THEN [status |-> "missing", value |-> None]
    ELSE IF ~IntOk(s.content) THEN [status |-> "invalid", value |-> None]
    ELSE [status |-> "ok", value |-> BigToSmall(IntVal(s.content))]

OnIoctlErrorNoFallback(d) == IF d = "if_8" THEN "raise" ELSE "none"

\* where get_mtu goes when the ioctl raised OSError
OnIoctlError(d) ==
    CASE d = "if_v4" -> "sysfs" [] d = "if_8v2" -> "none" [] d = "if_8" -> "raise"

(***************************************************************************)
(* display_traffic_stats: one data line                                    *)
(***************************************************************************)
Counter(kind, iface, v, marker) ==
    IF marker /\ v = <<>> THEN P("traffic", kind, iface, "No traffic")
    ELSE Ln("traffic", kind, iface, "", 0, format_bytes(v))

Entry(iface, rx, tx, marker) ==
    << P("traffic", "name", iface, ""),
       Counter("RX", iface, rx, marker),
       Counter("TX", iface, tx, marker) >>

Skip == [act |-> "ok", lines |-> <<>>]
Raise == [act |-> "raise", lines |-> <<>>]

\* if_v4.py lines 121-133
ParseLineV4(line, filter) ==
    LET parts == Split(line, ":") IN
    IF Len(parts) < 2 THEN Raise
    ELSE LET iface == Strip(parts[1])
             stats == SplitWs(parts[2])
         IN  IF Filtered(filter, iface) THEN Skip
             ELSE IF Len(stats) < 1 \/ ~IntOk(stats[1]) THEN Skip
             ELSE IF Len(stats) < 9 \/ ~IntOk(stats[9]) THEN Skip
             ELSE [act |-> "ok",
                   lines |-> Entry(iface, IntVal(stats[1]), IntVal(stats[9]), FALSE)]

\* if_8v2.py lines 80-104
ParseLineV2(line) ==
    LET parts == Split(line, ":") IN
    IF Strip(line) = <<>> THEN Skip
    ELSE IF Len(parts) < 2 THEN Skip
    ELSE LET iface == Strip(parts[1])
             stats == SplitWs(parts[2])
         IN  IF Len(stats) < 9 THEN Skip
             ELSE IF ~IntOk(stats[1]) \/ ~IntOk(stats[9])
             THEN [act |-> "ok", lines |-> <<P("traffic", "invalid", iface, "")>>]
             ELSE [act |-> "ok",
                   lines |-> Entry(iface, IntVal(stats[1]), IntVal(stats[9]), TRUE)]

\* if_8.py lines 68-90
ParseLineFirst(line) ==
    LET parts == Split(line, ":") IN
    IF Strip(line) = <<>> THEN Skip
    ELSE IF Len(parts) < 2 THEN Raise
    ELSE LET iface == Strip(parts[1])
             stats == SplitWs(parts[2])
         IN  IF Len(stats) < 1 \/ ~IntOk(stats[1]) THEN Raise
             ELSE IF Len(stats) < 9 \/ ~IntOk(stats[9]) THEN Raise
             ELSE [act |-> "ok",
                   lines |-> Entry(iface, IntVal(stats[1]), IntVal(stats[9]), TRUE)]

ParseLine(d, line, filter) ==
    CASE d = "if_v4" -> ParseLineV4(line, filter)
      [] d = "if_8v2" -> ParseLineV2(line)
      [] d = "if_8" -> ParseLineFirst(line)

StatsMissingFatal(d) == [printed |-> <<P("traffic", "notfound", <<>>, "")>>, code |-> 1]

\* the statistics source is absent: one message, and the run goes on to its end
StatsMissing(d) == [printed |-> <<P("traffic", "notfound", <<>>, "")>>, code |-> 0]

\* f.readlines()[2:]
DropHeader(text) == SubSeq(text, 3, Len(text))

\* [l.strip() for l in ... if l.strip()]
RECURSIVE StripNonBlank(_)
StripNonBlank(ls) ==
    IF ls = <<>> THEN <<>>
    ELSE IF Strip(Head(ls)) = <<>> THEN StripNonBlank(Tail(ls))
    ELSE <<Strip(Head(ls))>> \o StripNonBlank(Tail(ls))

\* the list the for loop of display_traffic_stats runs over
ReadLines(d, text) ==
    IF d = "if_v4" THEN StripNonBlank(DropHeader(text)) ELSE DropHeader(text)

(***************************************************************************)
(* The run                                                                 *)
(***************************************************************************)
EnumOutcomes ==
    {[raises |-> TRUE, list |-> <<>>]} \cup {[raises |-> FALSE, list |-> q] : q \in IfaceLists}

\* an exception nothing catches: the interpreter prints it and exits 1
Crash(printed) ==
    /\ out' = out \o printed \o <<P("main", "traceback", <<>>, "")>>
    /\ pc' = "done"
    /\ exitCode' = 1

\* main returns (or calls sys.exit) after printing
Finish(printed, code) ==
    /\ out' = out \o printed
    /\ pc' = "done"
    /\ exitCode' = code

\* the for loop of display_network_info moves on; after it main calls
\* display_traffic_stats
Advance ==
    /\ idx' = idx + 1
    /\ pc' = IF idx + 1 > Len(ifaces) THEN "traffic" ELSE "net_iface"

Init ==
    /\ draft \in Drafts
    /\ isLinux \in (IF draft = "if_8" THEN {TRUE} ELSE BOOLEAN)
    /\ FILTER \in (IF draft = "if_v4" THEN Filters ELSE {{}})
    /\ pc = "start"
    /\ out = <<>>
    /\ exitCode = -1
    /\ ifaces = <<>>
    /\ idx = 0
    /\ fds = 0
    /\ mtu = NoMtu
    /\ lines = <<>>
    /\ li = 0
    /\ size = <<>>
    /\ formatted = NoResult

\* main: the platform check (if_8.py has none)
Main ==
    /\ pc = "start"
    /\ IF draft # "if_8" /\ ~isLinux
       THEN Finish(<<P("main", "platform", <<>>, "")>>, 1)
       ELSE pc' = "net" /\ UNCHANGED <<out, exitCode>>
    /\ UNCHANGED <<draft, isLinux, FILTER, ifaces, idx, fds, mtu, lines, li, fmtVars>>

\* display_network_info: the section header and netifaces.interfaces()
NetEnum ==
    /\ pc = "net"
    /\ \E r \in EnumOutcomes :
         LET head == <<P("net", "section", <<>>, "")>> IN
         IF r.raises
         THEN /\ IF draft = "if_v4"
                 THEN Finish(head \o <<P("main", "critical", <<>>, "")>>, 1)
                 ELSE Crash(head)
              /\ UNCHANGED <<ifaces, idx>>
         ELSE /\ ifaces' = r.list
              /\ idx' = 1
              /\ out' = out \o head
              /\ pc' = IF r.list = <<>> THEN "traffic" ELSE "net_iface"
              /\ UNCHANGED exitCode
    /\ UNCHANGED <<draft, isLinux, FILTER, fds, mtu, lines, li, fmtVars>>

\* one turn of the loop of display_network_info, up to the call of get_mtu
NetIface ==
    /\ pc = "net_iface"
    /\ LET name == ifaces[idx] IN
       IF draft = "if_v4" /\ Filtered(FILTER, name)
       THEN Advance /\ UNCHANGED <<out, exitCode>>
       ELSE \E a \in AddrOutcomes :
              LET r == get_interface_info(draft, name, a) IN
              CASE r.next = "mtu" ->
                     /\ out' = out \o r.lines
                     /\ pc' = "mtu_ioctl"
                     /\ UNCHANGED <<idx, exitCode>>
                [] r.next = "skip" ->
                     /\ out' = out \o r.lines
                     /\ Advance
                     /\ UNCHANGED exitCode
                [] r.next = "crash" ->
                     /\ Crash(r.lines)
                     /\ UNCHANGED idx
    /\ UNCHANGED <<draft, isLinux, FILTER, ifaces, fds, mtu, lines, li, fmtVars>>

\* get_mtu, method 1: a socket and the SIOCGIFMTU ioctl on it
MtuIoctl ==
    /\ pc = "mtu_ioctl"
    /\ \E o \in IoctlOutcomes : \E g \in SocketFds(draft, fds, ~o.ok) :
         LET name == ifaces[idx]
             rec  == [iface |-> name, ioctl |-> IF o.ok THEN "ok" ELSE "failed",
                      sysfs |-> "notread", content |-> <<>>, state |-> "returned",
                      value |-> None]
         IN  /\ fds' = g
             /\ IF o.ok
                THEN /\ mtu' = [rec EXCEPT !.value = UnpackMtu(o.mtu)]
                     /\ out' = out \o MtuLines(draft, name, UnpackMtu(o.mtu))
                     /\ Advance
                     /\ UNCHANGED exitCode
                ELSE CASE OnIoctlError(draft) = "sysfs" ->
                            /\ mtu' = [rec EXCEPT !.state = "running"]
                            /\ pc' = "mtu_sysfs"
                            /\ UNCHANGED <<out, idx, exitCode>>
                       [] OnIoctlError(draft) = "none" ->
                            /\ mtu' = rec
                            /\ out' = out \o <<P("net", "mtuerror", name, "OSError")>>
                                          \o MtuLines(draft, name, None)
                            /\ Advance
                            /\ UNCHANGED exitCode
                       [] OnIoctlError(draft) = "raise" ->
                            /\ mtu' = [rec EXCEPT !.state = "raised"]
                            /\ Crash(<<>>)
                            /\ UNCHANGED idx
    /\ UNCHANGED <<draft, isLinux, FILTER, ifaces, lines, li, fmtVars>>

\* get_mtu, method 2 (if_v4.py): the sysfs node, opened in a with statement
MtuSysfs ==
    /\ pc = "mtu_sysfs"
    /\ \E s \in SysfsOutcomes :
         LET r == SysfsRead(s) IN
         /\ mtu' = [mtu EXCEPT !.sysfs = r.status, !.content = s.content,
                                !.state = "returned", !.value = r.value]
         /\ fds' = IF s.exists THEN CloseFd(OpenFd(fds)) ELSE fds
         /\ out' = out \o MtuLines(draft, ifaces[idx], r.value)
         /\ Advance
    /\ UNCHANGED <<draft, isLinux, FILTER, ifaces, exitCode, lines, li, fmtVars>>

\* display_traffic_stats up to its loop: the existence test, the read, the header
TrafficOpen ==
    /\ pc = "traffic"
    /\ \E p \in ProcOutcomes :
         IF ~p.exists
         THEN /\ Finish(StatsMissing(draft).printed, StatsMissing(draft).code)
              /\ UNCHANGED <<lines, li>>
         ELSE IF ~p.readable
         THEN /\ IF draft = "if_8"
                 THEN Crash(<<>>)
                 ELSE Finish(<<P("traffic", "readerror", <<>>, "")>>, 0)
              /\ UNCHANGED <<lines, li>>
         ELSE LET ls == ReadLines(draft, p.text) IN
              /\ lines' = ls
              /\ li' = 1
              /\ IF ls = <<>>
                 THEN Finish(<<P("traffic", "section", <<>>, "")>>, 0)
                 ELSE /\ out' = Append(out, P("traffic", "section", <<>>, ""))
                      /\ pc' = "traffic_line"
                      /\ UNCHANGED exitCode
    /\ UNCHANGED <<draft, isLinux, FILTER, ifaces, idx, fds, mtu, fmtVars>>

\* one turn of the loop of display_traffic_stats
TrafficLine ==
    /\ pc = "traffic_line"
    /\ LET r == ParseLine(draft, lines[li], FILTER) IN
       IF r.act = "raise"
       THEN /\ IF draft = "if_8"
               THEN Crash(<<>>)
               ELSE Finish(<<P("traffic", "readerror", <<>>, "")>>, 0)
            /\ UNCHANGED li
       ELSE /\ li' = li + 1
            /\ IF li + 1 > Len(lines)
               THEN Finish(r.lines, 0)
               ELSE out' = out \o r.lines /\ UNCHANGED <<pc, exitCode>>
    /\ UNCHANGED <<draft, isLinux, FILTER, ifaces, idx, fds, mtu, lines, fmtVars>>

Next == Main \/ NetEnum \/ NetIface \/ MtuIoctl \/ MtuSysfs \/ TrafficOpen \/ TrafficLine

Spec == Init /\ [][Next]_vars

(***************************************************************************)
(* format_bytes on its own: the argument is drawn, then the call is made   *)
(***************************************************************************)
LimbSamples == {0, 1, 256, 512, 768, 1023}

\* byte counts below 1024^MaxLimbs, and some in the TiB range (all below 2^53)
SizeSamples ==
    {Norm(q) : q \in SeqsUpTo(LimbSamples, MaxLimbs)}
    \cup { <<0, 0, 0, 0, 1>>, <<0, 0, 0, 512, 1>>, <<1023, 1023, 1023, 1023, 1023>>,
           <<0, 0, 0, 0, 0, 1>>, <<0, 0, 0, 256, 0, 1>>, <<1023, 1023, 1023, 1023, 1023, 7>> }

FmtInit ==
    /\ draft = "if_v4"
    /\ isLinux = TRUE
    /\ FILTER = {}
    /\ pc = "start"
    /\ out = <<>>
    /\ exitCode = -1
    /\ ifaces = <<>>
    /\ idx = 0
    /\ fds = 0
    /\ mtu = NoMtu
    /\ lines = <<>>
    /\ li = 0
    /\ size \in SizeSamples
    /\ formatted = NoResult

CallFormatBytes ==
    /\ formatted = NoResult
    /\ formatted' = format_bytes(size)
    /\ UNCHANGED <<size, progVars>>

FmtNext == CallFormatBytes

SpecFmt == FmtInit /\ [][FmtNext]_vars

(***************************************************************************)
(* Properties                                                              *)
(***************************************************************************)
Idx(q) == 1..Len(q)

Hardened == draft \in {"if_v4", "if_8v2"}

IsNetName(l) == l.pipe = "net" /\ l.kind = "name"

IsTrafficName(l) == l.pipe = "traffic" /\ l.kind = "name"

TrafficStarted == \E j \in Idx(out) : out[j].pipe = "traffic"

\* the loop of display_network_info has run to its end
LoopDone == pc \in {"traffic", "traffic_line"} \/ (pc = "done" /\ TrafficStarted)

Passes(name) == ~(draft = "if_v4" /\ FILTER # {} /\ name \notin FILTER)

RECURSIVE Keep(_, _)
Keep(q, S) ==
    IF q = <<>> THEN <<>>
    ELSE IF Head(q) \in S THEN <<Head(q)>> \o Keep(Tail(q), S) ELSE Keep(Tail(q), S)

\* the names of the per-interface blocks of the network-info output, in order
RECURSIVE NetBlocks(_)
NetBlocks(q) ==
    IF q = <<>> THEN <<>>
    ELSE IF IsNetName(Head(q)) THEN <<Head(q).iface>> \o NetBlocks(Tail(q))
    ELSE NetBlocks(Tail(q))

HasColon(line) == \E i \in Idx(line) : line[i] = ":"

AfterColon(line) ==
    LET c == CHOOSE i \in Idx(line) : line[i] = ":" /\ \A m \in 1..(i - 1) : line[m] # ":"
        e == IF \E i \in (c + 1)..Len(line) : line[i] = ":"
             THEN (CHOOSE i \in (c + 1)..Len(line) :
                      line[i] = ":" /\ \A m \in (c + 1)..(i - 1) : line[m] # ":") - 1
             ELSE Len(line)
    IN  SubSeq(line, c + 1, e)

BeforeColon(line) ==
    LET c == CHOOSE i \in Idx(line) : line[i] = ":" /\ \A m \in 1..(i - 1) : line[m] # ":"
    IN  Strip(SubSeq(line, 1, c - 1))

\* a data line with a colon, at least 9 tokens after it, numeric tokens 0 and 8
WellFormedLine(line) ==
    /\ HasColon(line)
    /\ LET stats == SplitWs(AfterColon(line)) IN
       Len(stats) >= 9 /\ IntOk(stats[1]) /\ IntOk(stats[9])

\* C1: in the hardened drafts a malformed data line never suppresses a later
\* line: once the traffic pipeline is over, every well-formed line whose
\* interface passes the filter has its output entry, whatever came before it.
C1_MalformedLineNeverSuppresses ==
    (Hardened /\ pc = "done" /\ \E j \in Idx(out) : out[j].pipe = "traffic" /\ out[j].kind = "section")
    => \A i \in Idx(lines) :
         (WellFormedLine(lines[i]) /\ Passes(BeforeColon(lines[i])))
         => \E j \in Idx(out) : IsTrafficName(out[j]) /\ out[j].iface = BeforeColon(lines[i])

Pow1024(k) == Shift(<<1>>, k)

BigLt(a, b) == ~BigLeq(b, a)

\* the smallest k in 0..4 with b < 1024^(k+1), or 4 when there is none
LadderIndex(b) ==
    LET c == {k \in 0..4 : BigLt(b, Pow1024(k + 1))}
    IN  IF c = {} THEN 4 ELSE CHOOSE k \in c : \A m \in c : k <= m

\* t tenths is a nearest one-digit decimal of b / 1024^k
NearestTenth(b, k, t) ==
    /\ BigLeq(BigMulAdd(b, 20, 0), Shift(SmallToBig(2 * t + 1), k))
    /\ t = 0 \/ BigLeq(Shift(SmallToBig(2 * t - 1), k), BigMulAdd(b, 20, 0))

Shown(w, f, u) == [whole |-> w, frac |-> f, unit |-> u]

\* C2: format_bytes(b) shows b / 1024^k with one fractional digit and the
\* k-th unit, k the smallest index in 0..4 with b < 1024^(k+1), or 4; 0 gives
\* "0.0 B", 1023 "1023.0 B", 1024 "1.0 KiB", 1536 "1.5 KiB", 1024^4
\* "1.0 TiB", 1024^5 "1024.0 TiB".  (Byte counts below 2^53.)
C2_FormatBytesLadder ==
    formatted # NoResult
    => LET k == LadderIndex(size)
           t == 10 * formatted.whole + formatted.frac
       IN  /\ formatted.unit = BYTE_UNITS[k + 1]
           /\ formatted.frac \in 0..9
           /\ formatted.whole >= 0
           /\ NearestTenth(size, k, t)
           /\ size = <<>> => formatted = Shown(0, 0, "B")
           /\ size = <<1023>> => formatted = Shown(1023, 0, "B")
           /\ size = <<0, 1>> => formatted = Shown(1, 0, "KiB")
           /\ size = <<512, 1>> => formatted = Shown(1, 5, "KiB")
           /\ size = <<0, 0, 0, 0, 1>> => formatted = Shown(1, 0, "TiB")
           /\ size = <<0, 0, 0, 0, 0, 1>> => formatted = Shown(1024, 0, "TiB")

C2_Witness ==
    /\ size = <<0, 0, 0, 0, 0, 1>>
    /\ formatted = Shown(1024, 0, "TiB")

\* C3: a receive or transmit counter of exactly 0 is printed as "No traffic";
\* "0.0 B" is never printed on an RX or TX line.
C3_ZeroCounterIsNoTraffic ==
    Hardened
    => \A j \in Idx(out) :
         out[j].kind \in {"RX", "TX"} => out[j].fmt # Shown(0, 0, "B")

Mtu1500 == <<"1", "5", "0", "0", "\n">>

\* C4: in if_v4.py the sysfs node is read only after the ioctl failed, and
\* always then; content "1500" gives 1500; when both methods fail get_mtu
\* returns None; get_mtu never raises.
C4_SysfsFallback ==
    draft = "if_v4"
    => /\ mtu.state # "raised"
       /\ mtu.sysfs # "notread" => mtu.ioctl = "failed"
       /\ (mtu.state = "returned" /\ mtu.ioctl = "failed") => mtu.sysfs # "notread"
       /\ (mtu.state = "returned" /\ mtu.ioctl = "failed" /\ mtu.content = Mtu1500)
          => mtu.value = 1500
       /\ (mtu.state = "returned" /\ mtu.sysfs \in {"missing", "invalid"})
          => mtu.value = None

C4_Witness ==
    /\ draft = "if_v4"
    /\ mtu.state = "returned"
    /\ mtu.ioctl = "failed"
    /\ mtu.content = Mtu1500
    /\ mtu.value = 1500

\* C5: with a non-empty FilterSet no line is printed for an interface that
\* is not a member, in either pipeline.
C5_FilterHidesNonMembers ==
    (draft = "if_v4" /\ FILTER # {})
    => \A j \in Idx(out) : \A n \in Names \ FILTER : out[j].iface # n

C5_Witness ==
    /\ draft = "if_v4"
    /\ FILTER = {Name("eth0")}
    /\ pc = "done"
    /\ \E i \in Idx(ifaces) : ifaces[i] = Name("wlan0")
    /\ \E i \in Idx(lines) : WellFormedLine(lines[i]) /\ BeforeColon(lines[i]) = Name("wlan0")
    /\ \E j \in Idx(out) : IsNetName(out[j]) /\ out[j].iface = Name("eth0")
    /\ \E j \in Idx(out) : IsTrafficName(out[j]) /\ out[j].iface = Name("eth0")

\* C6: in the hardened drafts an exception of one interface's lookups is
\* printed as that interface's error line and never leaves
\* get_interface_info; every interface that passes the filter gets its block.
C6_InterfaceErrorContained ==
    Hardened
    => /\ \A j \in Idx(out) :
            IsNetName(out[j])
            => /\ j < Len(out)
               /\ out[j + 1].kind \in {"error", "inet"}
               /\ out[j + 1].iface = out[j].iface
       /\ (\E j \in Idx(out) : IsNetName(out[j]))
          => \A m \in Idx(out) : out[m].kind \notin {"traceback", "critical"}
       /\ LoopDone => NetBlocks(out) = Keep(ifaces, {n \in Names : Passes(n)})

C6_Witness ==
    /\ draft = "if_v4"
    /\ LoopDone
    /\ ifaces = <<Name("eth0"), Name("wlan0")>>
    /\ \E j \in Idx(out) : \E m \in Idx(out) :
         /\ j < m /\ m < Len(out)
         /\ out[j].kind = "error" /\ out[j].iface = Name("eth0")
         /\ IsNetName(out[m]) /\ out[m].iface = Name("wlan0")
         /\ out[m + 1].kind = "inet"

\* C7: when the interface-list query of the network-info pipeline raises,
\* the traffic-statistics pipeline still runs in the same run.
C7_EnumFailureLeavesTrafficRunning ==
    (draft = "if_v4" /\ pc = "done" /\ \E j \in Idx(out) : out[j].kind = "critical")
    => TrafficStarted

\* C8: when the statistics source does not exist the traffic pipeline prints
\* one message and nothing else, after the network-info pipeline has run, and
\* the run ends with exit code 0.
C8_MissingStatsOneMessage ==
    \A j \in Idx(out) :
      out[j].kind = "notfound"
      => /\ j = Len(out)
         /\ pc = "done"
         /\ exitCode = 0
         /\ isLinux
         /\ \A m \in 1..(j - 1) : out[m].pipe = "net"
         /\ out[1].kind = "section"
         /\ NetBlocks(out) = Keep(ifaces, {n \in Names : Passes(n)})

C8_Witness ==
    /\ draft = "if_v4"
    /\ pc = "done"
    /\ exitCode = 0
    /\ ifaces # <<>>
    /\ out[Len(out)].kind = "notfound"

\* C9: every descriptor a get_mtu call acquired is released when the call
\* has returned or raised, so no descriptor is held open after it.
C9_NoDescriptorHeld ==
    mtu.state \in {"returned", "raised"} => fds = 0

\* C10: in the hardened drafts every interface whose address lookup did not
\* raise is printed as its name followed by exactly the inet, netmask,
\* broadcast and MTU lines, the MTU line never left out, and the blocks
\* follow the enumeration order.
C10_FourLinesPerInterface ==
    (Hardened /\ LoopDone)
    => /\ NetBlocks(out) = Keep(ifaces, {n \in Names : Passes(n)})
       /\ \A j \in Idx(out) :
            (IsNetName(out[j]) /\ j < Len(out) /\ out[j + 1].kind = "inet")
            => LET d == IF j + 4 <= Len(out) /\ out[j + 4].kind = "mtuerror" THEN 1 ELSE 0
                   \* a diagnostic of get_mtu may precede the MTU line
               IN  /\ j + 4 + d <= Len(out)
                   /\ out[j + 2].kind = "netmask"
                   /\ out[j + 3].kind = "broadcast"
                   /\ out[j + 4 + d].kind = "MTU"
                   /\ \A m \in 1..(4 + d) :
                        out[j + m].pipe = "net" /\ out[j + m].iface = out[j].iface

====
